---- MODULE Spec2Model ----
(***************************************************************************)
(* Model of the fetch-orchestration engine of scraper_engine.py:           *)
(* AntiDetectionScraper (proxy rotation, retry/backoff loop, bulk          *)
(* coordinator) and GoogleMapsScraper.extract_business_info.               *)
(*                                                                         *)
(* Under Spec one engine instance is driven by one client thread; under    *)
(* SpecConcurrent two threads call get_next_proxy on it.  Python values    *)
(* are modelled as follows: a str is a TLA+ string, None is the string     *)
(* "None" where the other values of the field are strings and the empty    *)
(* function where they are dicts, a dict is a function on its keys, a list *)
(* is a sequence (Python index k is TLA+ index k + 1).                     *)
(***************************************************************************)
EXTENDS Integers, Sequences, FiniteSets, TLC

(* ------------------------------ bounds --------------------------------- *)
MaxPool == 3        \* longest proxy list handed to add_proxies
MaxRetries == 3     \* largest retry budget an instance is given
MaxUrls == 2        \* longest url list handed to bulk_scrape
MaxBlocks == 12     \* most data-cid blocks on a page
BadBlock == 5       \* position of the block with a missing or broken sub-element

(* --------------------------- input domains ----------------------------- *)
None == "None"
NoProxy == << >>

Endpoint(n) == "http://proxy" \o ToString(n)

\* the list of k distinct endpoints that starts with endpoint k
Pool(k) == [j \in 1..k |-> Endpoint(k - j + 1)]

ProxyLists == {Pool(k) : k \in 0..MaxPool}

RetryBudgets == 0..MaxRetries

Urls == {"http://a", "http://b"}

UrlLists == UNION {[1..n -> Urls] : n \in 0..MaxUrls}

\* a str the code splits at spaces is a sequence of its words and spaces
Queries == {<<"pizza">>, <<"coffee", " ", "shop">>}

Locations == {<< >>, <<"rome">>}

VARIABLES
    proxies,              \* self.proxies
    current_proxy_index,  \* self.current_proxy_index
    rate_limit,           \* self.rate_limit
    max_retries,          \* self.max_retries
    op,                   \* the public method the client is inside, or "idle"
    pc,                   \* position of the running scrape_url call
    url,                  \* scrape_url: argument url
    use_trafilatura,      \* scrape_url: argument use_trafilatura
    attempt,              \* scrape_url: the loop variable
    proxy,                \* value of the latest get_next_proxy call
    outcomes,             \* scrape_url: transport outcomes of this call so far
    log,                  \* scrape_url: calls this call has made, in order
    result,               \* value returned by the latest scrape_url call
    served,               \* values get_next_proxy gave since the last add_proxies
    urls,                 \* bulk_scrape: argument urls
    i,                    \* bulk_scrape: the loop index
    results,              \* bulk_scrape: the list results
    bulk_delays,          \* bulk_scrape: human_delay calls made by its loop
    frame,                \* position of the running bulk_scrape / extract_business_info
    query,                \* extract_business_info: the local query
    businesses,           \* extract_business_info: the list businesses
    threads,              \* per thread: its get_next_proxy call in progress
    run_cursor,           \* the cursor when the running client call began
    used                  \* proxies argument of each session.get of that call

instance == <<proxies, current_proxy_index, rate_limit, max_retries>>
call == <<url, use_trafilatura, attempt, outcomes, log, result>>
bulk == <<urls, i, results, bulk_delays>>
rotor == <<current_proxy_index, proxy, served>>
run == <<run_cursor, used>>
vars == <<instance, op, pc, call, proxy, served, bulk, frame, query, businesses,
          threads, run>>

(* ------------------------------ documents ------------------------------ *)
\* A page as BeautifulSoup sees it: its <title> string ("" when it has none),
\* the number of div[data-cid] blocks, and what is wrong with block BadBlock.
PlainPages == {[title |-> "", blocks |-> 0, bad |-> "none"]}

ListingPages ==
    {[title |-> "Maps", blocks |-> m, bad |-> k] :
        m \in 0..MaxBlocks, k \in {"none", "missing", "broken"}}
    \ {[title |-> "Maps", blocks |-> m, bad |-> k] :
        m \in 0..(BadBlock - 1), k \in {"missing", "broken"}}

Pages == PlainPages \cup ListingPages

\* response.text of a page, and the document html.parser builds from a text
Text(page) == ToString(page)

BeautifulSoup(text) == CHOOSE page \in Pages : Text(page) = text

\* trafilatura.extract: the page's clean text, or None when it finds none
TrafilaturaExtract(text) == {None, "text of " \o text}

\* what session.get can do: raise a RequestException, or return a response
StatusCodes == {200, 429, 503}

RequestException == [raised |-> TRUE, status_code |-> 0]

Response(code) == [raised |-> FALSE, status_code |-> code]

(* ---------------------------- proxy rotation --------------------------- *)
IndexError == [error |-> "IndexError"]

ProxyDict(p) == [http |-> p, https |-> p]

\* a rotation without the empty-list check of line 62
get_next_proxy_unguarded(ps, idx) ==
    IF idx >= Len(ps)
    THEN [value |-> IndexError, index |-> idx]
    ELSE [value |-> ProxyDict(ps[idx + 1]), index |-> (idx + 1) % Len(ps)]

\* a rotation that moves the cursor two places
get_next_proxy_skipping(ps, idx) ==
    IF ps = << >>
    THEN [value |-> NoProxy, index |-> idx]
    ELSE IF idx >= Len(ps)
         THEN [value |-> IndexError, index |-> idx]
         ELSE [value |-> ProxyDict(ps[idx + 1]), index |-> (idx + 2) % Len(ps)]

\* get_next_proxy on list ps with cursor idx: the value returned (or the
\* IndexError that ps[idx] raises) and the cursor it leaves
get_next_proxy(ps, idx) ==
    IF ps = << >>
    THEN [value |-> NoProxy, index |-> idx]
    ELSE IF idx >= Len(ps)
         THEN [value |-> IndexError, index |-> idx]
         ELSE [value |-> ProxyDict(ps[idx + 1]), index |-> (idx + 1) % Len(ps)]

\* served keeps the first Len(proxies) + 1 values given since add_proxies
Record(history, value) ==
    IF Len(history) <= Len(proxies) THEN Append(history, value) ELSE history

\* the effect of one self.get_next_proxy() call on the instance
CallGetNextProxy ==
    LET r == get_next_proxy(proxies, current_proxy_index)
    IN  /\ current_proxy_index' = r.index
        /\ proxy' = r.value
        /\ served' = Record(served, r.value)

NextProxyRaises ==
    get_next_proxy(proxies, current_proxy_index).value = IndexError

(* ------------------------------- Init ---------------------------------- *)
\* the threads of the server that handle requests on the shared instance
Threads == {1, 2}

\* a thread outside get_next_proxy; start is the cursor when its call
\* began, local the local proxy, tmp the evaluated right-hand side of
\* line 66, value what the call returned or raised
IdleThread ==
    [pc |-> "idle", start |-> 0, local |-> None, tmp |-> 0, value |-> NoProxy]

NoResult == << >>

Init ==
    /\ proxies = << >>
    /\ current_proxy_index = 0
    /\ rate_limit = 2
    /\ max_retries \in RetryBudgets
    /\ op = "idle"
    /\ pc = "none"
    /\ url = None
    /\ use_trafilatura = FALSE
    /\ attempt = 0
    /\ proxy = NoProxy
    /\ outcomes = << >>
    /\ log = << >>
    /\ result = NoResult
    /\ served = << >>
    /\ urls = << >>
    /\ i = 0
    /\ results = << >>
    /\ bulk_delays = 0
    /\ frame = "none"
    /\ query = << >>
    /\ businesses = << >>
    /\ threads = [t \in Threads |-> IdleThread]
    /\ run_cursor = 0
    /\ used = << >>

(* ------------------------- client-level calls -------------------------- *)
\* scraper.add_proxies(proxy_list), between fetches
add_proxies(proxy_list) ==
    /\ UNCHANGED run
    /\ UNCHANGED threads
    /\ op = "idle"
    /\ proxies' = proxy_list
    /\ served' = << >>
    /\ UNCHANGED <<current_proxy_index, rate_limit, max_retries, op, pc, call,
                   proxy, bulk, frame, query, businesses>>

\* scraper.get_next_proxy() called by the client, between fetches
GetNextProxy ==
    /\ UNCHANGED run
    /\ UNCHANGED threads
    /\ op = "idle"
    /\ CallGetNextProxy
    /\ UNCHANGED <<proxies, rate_limit, max_retries, op, pc, call, bulk, frame,
                   query, businesses>>

\* a delay that also moves the rotation on
HumanDelayRotates ==
    /\ UNCHANGED run
    /\ op = "idle"
    /\ op' = "human_delay"
    /\ CallGetNextProxy
    /\ UNCHANGED <<proxies, rate_limit, max_retries, pc, call, bulk, frame,
                   query, businesses, threads>>

\* client call scraper.human_delay(): line 75 computes the delay from
\* self.rate_limit and line 76 sleeps
HumanDelay ==
    /\ UNCHANGED run
    /\ op = "idle"
    /\ op' = "human_delay"
    /\ UNCHANGED <<instance, pc, call, proxy, served, bulk, frame, query,
                   businesses, threads>>

\* the sleep of line 76 is over and human_delay returns
HumanDelayEnds ==
    /\ UNCHANGED run
    /\ op = "human_delay"
    /\ op' = "idle"
    /\ UNCHANGED <<instance, pc, call, proxy, served, bulk, frame, query,
                   businesses, threads>>

(* ------------------------------ scrape_url ----------------------------- *)
\* the page set session.get answers from: a listing page for the search url
\* of extract_business_info, a plain page otherwise
ResponseTexts ==
    {Text(page) : page \in IF op = "extract_business_info"
                           THEN ListingPages ELSE PlainPages}

\* entry of scrape_url(u, t): the for loop starts at attempt 0
EnterScrapeUrl(u, t) ==
    /\ url' = u
    /\ use_trafilatura' = t
    /\ attempt' = 0
    /\ outcomes' = << >>
    /\ log' = << >>
    /\ result' = NoResult
    /\ pc' = "loop"

\* a loop that runs one iteration too many
InLoopOffByOne == pc = "loop" /\ attempt <= max_retries

\* for attempt in range(self.max_retries): an iteration remains
InLoop == pc = "loop" /\ attempt < max_retries

\* lines 85-86 of an iteration
Prepare == <<"get_random_headers", "get_next_proxy">>

\* lines 85-95 of an iteration whose session.get is reached
Transmit == Prepare \o <<"session.get">>

\* line 134: if attempt < self.max_retries - 1
AttemptsRemain == attempt < max_retries - 1

SuccessResult(u, content, text, traf) ==
    IF traf
    THEN [url |-> u, status |-> "success", content |-> content,
          method |-> "trafilatura"]
    ELSE [url |-> u, status |-> "success", content |-> text,
          title |-> BeautifulSoup(text).title, method |-> "beautifulsoup"]

\* a terminal failure that reports an extraction method
FailedResultWithMethod(u) ==
    [url |-> u, status |-> "failed", content |-> None,
     method |-> "beautifulsoup"]

\* lines 137-142
FailedResult(u) ==
    [url |-> u, status |-> "failed", content |-> None, method |-> None]

\* client call scraper.scrape_url(u, t)
ScrapeUrl(u, t) ==
    /\ run_cursor' = current_proxy_index
    /\ used' = << >>
    /\ UNCHANGED threads
    /\ op = "idle"
    /\ op' = "scrape_url"
    /\ EnterScrapeUrl(u, t)
    /\ UNCHANGED <<instance, proxy, served, bulk, frame, query, businesses>>

\* an iteration in which self.proxies[self.current_proxy_index] raises
\* IndexError: not a RequestException, so it leaves scrape_url
AttemptIndexError ==
    /\ UNCHANGED run
    /\ UNCHANGED threads
    /\ InLoop
    /\ NextProxyRaises
    /\ CallGetNextProxy
    /\ log' = log \o Prepare
    /\ pc' = "raised"
    /\ UNCHANGED <<proxies, rate_limit, max_retries, op, url, use_trafilatura,
                   attempt, outcomes, result, bulk, frame, query, businesses>>

\* an iteration whose response has status 200: lines 97-116
AttemptSuccess(text, content) ==
    /\ UNCHANGED threads
    /\ InLoop
    /\ ~NextProxyRaises
    /\ CallGetNextProxy
    /\ used' = Append(used, proxy')
    /\ UNCHANGED run_cursor
    /\ outcomes' = Append(outcomes, Response(200))
    /\ log' = log \o Transmit
    /\ result' = SuccessResult(url, content, text, use_trafilatura)
    /\ pc' = "returned"
    /\ UNCHANGED <<proxies, rate_limit, max_retries, op, url, use_trafilatura,
                   attempt, bulk, frame, query, businesses>>

\* a rate-limit branch without its continue: it goes on to line 134
RateLimitSleepThenPace ==
    <<"sleep(10, 20)">> \o (IF AttemptsRemain THEN <<"human_delay">> ELSE << >>)

\* a rate-limit branch that sleeps only when attempts remain
RateLimitSleepIfRemain ==
    IF AttemptsRemain THEN <<"sleep(10, 20)">> ELSE << >>

\* a rate-limit branch that sleeps in the transport-failure band
RateLimitSleepShort == <<"sleep(5, 10)">>

\* line 121: time.sleep(random.uniform(10, 20))
RateLimitSleep == <<"sleep(10, 20)">>

\* an iteration whose response has status 429: lines 118-122
AttemptRateLimited ==
    /\ UNCHANGED threads
    /\ InLoop
    /\ ~NextProxyRaises
    /\ CallGetNextProxy
    /\ used' = Append(used, proxy')
    /\ UNCHANGED run_cursor
    /\ outcomes' = Append(outcomes, Response(429))
    /\ log' = log \o Transmit \o RateLimitSleep
    /\ attempt' = attempt + 1
    /\ UNCHANGED <<proxies, rate_limit, max_retries, op, pc, url,
                   use_trafilatura, result, bulk, frame, query, businesses>>

\* a pacing delay taken after the last attempt too
PacingDelayAlways == <<"human_delay">>

\* lines 134-135: if attempt < self.max_retries - 1: self.human_delay()
PacingDelay == IF AttemptsRemain THEN <<"human_delay">> ELSE << >>

\* an iteration whose response has another status: lines 124-125, 134-135
AttemptBadStatus(code) ==
    /\ UNCHANGED threads
    /\ InLoop
    /\ ~NextProxyRaises
    /\ CallGetNextProxy
    /\ used' = Append(used, proxy')
    /\ UNCHANGED run_cursor
    /\ outcomes' = Append(outcomes, Response(code))
    /\ log' = log \o Transmit \o PacingDelay
    /\ attempt' = attempt + 1
    /\ UNCHANGED <<proxies, rate_limit, max_retries, op, pc, url,
                   use_trafilatura, result, bulk, frame, query, businesses>>

\* an except branch that goes on to line 134 after its sleep
ErrorSleepThenPace ==
    IF AttemptsRemain THEN <<"sleep(5, 10)", "human_delay">> ELSE << >>

\* an except branch that sleeps after the last attempt too
ErrorSleepAlways == <<"sleep(5, 10)">>

\* lines 129-131, then lines 134-135 when line 129 is false: the sleep of
\* the 5-10 band while attempts remain, and nothing after the last attempt
ErrorSleep == IF AttemptsRemain THEN <<"sleep(5, 10)">> ELSE << >>

\* an iteration whose session.get raises RequestException: lines 127-135
AttemptRequestException ==
    /\ UNCHANGED threads
    /\ InLoop
    /\ ~NextProxyRaises
    /\ CallGetNextProxy
    /\ used' = Append(used, proxy')
    /\ UNCHANGED run_cursor
    /\ outcomes' = Append(outcomes, RequestException)
    /\ log' = log \o Transmit \o ErrorSleep
    /\ attempt' = attempt + 1
    /\ UNCHANGED <<proxies, rate_limit, max_retries, op, pc, url,
                   use_trafilatura, result, bulk, frame, query, businesses>>

\* the loop is exhausted: lines 137-142
ReturnFailed ==
    /\ UNCHANGED run
    /\ UNCHANGED threads
    /\ pc = "loop"
    /\ ~InLoop
    /\ result' = FailedResult(url)
    /\ pc' = "returned"
    /\ UNCHANGED <<instance, op, url, use_trafilatura, attempt, outcomes, log,
                   proxy, served, bulk, frame, query, businesses>>

\* one step of the running scrape_url call
ScrapeStep ==
    \/ AttemptIndexError
    \/ \E text \in ResponseTexts :
          \E content \in (IF use_trafilatura THEN TrafilaturaExtract(text)
                                             ELSE {text}) :
             AttemptSuccess(text, content)
    \/ AttemptRateLimited
    \/ \E code \in StatusCodes \ {200, 429} : AttemptBadStatus(code)
    \/ AttemptRequestException
    \/ ReturnFailed

\* the client takes what its call returned or raised
Reset ==
    /\ url' = None
    /\ use_trafilatura' = FALSE
    /\ attempt' = 0
    /\ outcomes' = << >>
    /\ log' = << >>
    /\ result' = NoResult
    /\ pc' = "none"
    /\ urls' = << >>
    /\ i' = 0
    /\ results' = << >>
    /\ bulk_delays' = 0
    /\ frame' = "none"
    /\ query' = << >>
    /\ businesses' = << >>
    /\ run_cursor' = 0
    /\ used' = << >>
    /\ op' = "idle"

ScrapeUrlEnds ==
    /\ UNCHANGED threads
    /\ op = "scrape_url"
    /\ pc \in {"returned", "raised"}
    /\ Reset
    /\ UNCHANGED <<instance, proxy, served>>

(* ------------------------------ bulk_scrape ---------------------------- *)
\* a loop that delays after every item, the last one too
DelaysAfterEvery(k, n) == 1

\* lines 155-157 after item k (Python index) of n: human_delay unless last
DelaysAfter(k, n) == IF k < n - 1 THEN 1 ELSE 0

\* client call scraper.bulk_scrape(us, t): up to the first scrape_url call,
\* or to the return when us is empty
BulkScrape(us, t) ==
    /\ run_cursor' = current_proxy_index
    /\ used' = << >>
    /\ UNCHANGED threads
    /\ op = "idle"
    /\ op' = "bulk_scrape"
    /\ urls' = us
    /\ results' = << >>
    /\ i' = 0
    /\ bulk_delays' = 0
    /\ IF Len(us) > 0
       THEN /\ frame' = "loop"
            /\ EnterScrapeUrl(us[1], t)
       ELSE /\ frame' = "returned"
            /\ UNCHANGED <<pc, call>>
    /\ UNCHANGED <<instance, proxy, served, query, businesses>>

\* a loop that stops at the first failed result
MoreUrlsUnlessFailed == i + 1 < Len(urls) /\ result.status # "failed"

\* for i, url in enumerate(urls): an item follows item i
MoreUrls == i + 1 < Len(urls)

\* scrape_url returned to the loop: lines 153-157, then the next iteration
\* up to its scrape_url call, or the return of results
BulkNext ==
    /\ UNCHANGED run
    /\ UNCHANGED threads
    /\ op = "bulk_scrape"
    /\ frame = "loop"
    /\ pc = "returned"
    /\ results' = Append(results, result)
    /\ bulk_delays' = bulk_delays + DelaysAfter(i, Len(urls))
    /\ i' = i + 1
    /\ IF MoreUrls
       THEN /\ EnterScrapeUrl(urls[i + 2], use_trafilatura)
            /\ UNCHANGED frame
       ELSE /\ frame' = "returned"
            /\ UNCHANGED <<pc, call>>
    /\ UNCHANGED <<instance, op, proxy, served, urls, query, businesses>>

\* an exception that left scrape_url leaves bulk_scrape too
BulkRaises ==
    /\ UNCHANGED run
    /\ UNCHANGED threads
    /\ op = "bulk_scrape"
    /\ frame = "loop"
    /\ pc = "raised"
    /\ frame' = "raised"
    /\ UNCHANGED <<instance, op, pc, call, proxy, served, bulk, query,
                   businesses>>

BulkScrapeEnds ==
    /\ UNCHANGED threads
    /\ op = "bulk_scrape"
    /\ frame \in {"returned", "raised"}
    /\ Reset
    /\ UNCHANGED <<instance, proxy, served>>

(* ------------------------- extract_business_info ----------------------- *)
ResultCap == 10

RECURSIVE Strip(_)
\* str.strip() on a sequence of words and spaces
Strip(str) ==
    IF str = << >> THEN str
    ELSE IF Head(str) = " " THEN Strip(Tail(str))
    ELSE IF str[Len(str)] = " " THEN Strip(SubSeq(str, 1, Len(str) - 1))
    ELSE str

\* str.replace(' ', '+')
ReplaceSpaces(str) == [k \in 1..Len(str) |-> IF str[k] = " " THEN "+" ELSE str[k]]

RECURSIVE Concat(_)
\* the str a sequence of words and spaces stands for
Concat(str) == IF str = << >> THEN "" ELSE Head(str) \o Concat(Tail(str))

\* line 172: f"{search_query} {location}".strip()
Query(search_query, location) == Strip(search_query \o <<" ">> \o location)

\* lines 171-173
SearchUrl(search_query, location) ==
    "https://www.google.com/maps/search/"
        \o Concat(ReplaceSpaces(Query(search_query, location)))

\* what is wrong with block b (counted from 1) of a parsed page
BlockKind(soup, b) ==
    IF b = BadBlock /\ soup.bad # "none" THEN soup.bad ELSE "ok"

\* lines 189-204 for block b: a sub-element that is missing gives its
\* placeholder (scraped_at, the wall clock, is left out)
BusinessInfo(soup, b, q) ==
    IF BlockKind(soup, b) = "ok"
    THEN [name |-> "Business " \o ToString(b), rating |-> "4.5 stars",
          address |-> "Street " \o ToString(b), search_query |-> Concat(q)]
    ELSE [name |-> "Unknown", rating |-> "", address |-> "",
          search_query |-> Concat(q)]

RECURSIVE ExtractBlocks(_, _, _, _)
\* lines 187-210 over blocks b..n: a block whose extraction raises is
\* skipped by the except clause
ExtractBlocks(soup, b, n, q) ==
    IF b > n THEN << >>
    ELSE IF BlockKind(soup, b) = "broken"
         THEN ExtractBlocks(soup, b + 1, n, q)
         ELSE <<BusinessInfo(soup, b, q)>> \o ExtractBlocks(soup, b + 1, n, q)

Min(a, b) == IF a < b THEN a ELSE b

\* lines 178-212, given what scrape_url returned
Businesses(res, q) ==
    IF res # NoResult /\ res.status = "success" /\ "soup" \in DOMAIN res
    THEN ExtractBlocks(res.soup, 1, Min(res.soup.blocks, ResultCap), q)
    ELSE << >>

\* client call maps_scraper.extract_business_info(search_query, location),
\* up to its scrape_url call
ExtractBusinessInfo(search_query, location) ==
    /\ run_cursor' = current_proxy_index
    /\ used' = << >>
    /\ UNCHANGED threads
    /\ op = "idle"
    /\ op' = "extract_business_info"
    /\ query' = Query(search_query, location)
    /\ businesses' = << >>
    /\ frame' = "loop"
    /\ EnterScrapeUrl(SearchUrl(search_query, location), FALSE)
    /\ UNCHANGED <<instance, proxy, served, bulk>>

\* scrape_url returned: lines 178-212
ExtractReturns ==
    /\ UNCHANGED run
    /\ UNCHANGED threads
    /\ op = "extract_business_info"
    /\ frame = "loop"
    /\ pc = "returned"
    /\ businesses' = Businesses(result, query)
    /\ frame' = "returned"
    /\ UNCHANGED <<instance, op, pc, call, proxy, served, bulk, query>>

\* an exception that left scrape_url leaves extract_business_info too
ExtractRaises ==
    /\ UNCHANGED run
    /\ UNCHANGED threads
    /\ op = "extract_business_info"
    /\ frame = "loop"
    /\ pc = "raised"
    /\ frame' = "raised"
    /\ UNCHANGED <<instance, op, pc, call, proxy, served, bulk, query,
                   businesses>>

ExtractBusinessInfoEnds ==
    /\ UNCHANGED threads
    /\ op = "extract_business_info"
    /\ frame \in {"returned", "raised"}
    /\ Reset
    /\ UNCHANGED <<instance, proxy, served>>

Next ==
    \/ \E proxy_list \in ProxyLists : add_proxies(proxy_list)
    \/ GetNextProxy
    \/ HumanDelay
    \/ HumanDelayEnds
    \/ \E u \in Urls, t \in BOOLEAN : ScrapeUrl(u, t)
    \/ ScrapeStep
    \/ ScrapeUrlEnds
    \/ \E us \in UrlLists, t \in BOOLEAN : BulkScrape(us, t)
    \/ BulkNext
    \/ BulkRaises
    \/ BulkScrapeEnds
    \/ \E search_query \in Queries, location \in Locations :
          ExtractBusinessInfo(search_query, location)
    \/ ExtractReturns
    \/ ExtractRaises
    \/ ExtractBusinessInfoEnds

Spec == Init /\ [][Next]_vars

\* a call that has started keeps running: the interpreter executes the
\* method to its return or raise; the client is not obliged to call again
Running ==
    \/ ScrapeStep
    \/ BulkNext
    \/ BulkRaises
    \/ ExtractReturns
    \/ ExtractRaises

FairSpec == Spec /\ WF_vars(Running)

(* ------------------ get_next_proxy called by two threads --------------- *)
\* The method takes no lock (threading is imported and never used), so a
\* thread switch may fall between any two of its reads and writes of the
\* instance: the check of line 62, the read of line 65, the evaluation of
\* the right-hand side of line 66 and its store.
ThreadsIdle == \A t \in Threads : threads[t].pc = "idle"

ThreadsDone == \A t \in Threads : threads[t].pc \in {"done", "raised"}

\* thread t calls scraper.get_next_proxy(): lines 62-63
ThreadCall(t) ==
    /\ UNCHANGED run
    /\ op = "idle"
    /\ threads[t].pc = "idle"
    /\ threads' = [threads EXCEPT ![t] =
          IF proxies = << >>
          THEN [@ EXCEPT !.pc = "done", !.start = current_proxy_index,
                         !.value = NoProxy]
          ELSE [@ EXCEPT !.pc = "line 65", !.start = current_proxy_index]]
    /\ UNCHANGED <<instance, op, pc, call, proxy, served, bulk, frame, query,
                   businesses>>

\* line 65: proxy = self.proxies[self.current_proxy_index]
ThreadRead(t) ==
    /\ UNCHANGED run
    /\ threads[t].pc = "line 65"
    /\ threads' = [threads EXCEPT ![t] =
          IF current_proxy_index >= Len(proxies)
          THEN [@ EXCEPT !.pc = "raised", !.value = IndexError]
          ELSE [@ EXCEPT !.pc = "line 66",
                         !.local = proxies[current_proxy_index + 1]]]
    /\ UNCHANGED <<instance, op, pc, call, proxy, served, bulk, frame, query,
                   businesses>>

\* line 66, right-hand side: (self.current_proxy_index + 1) % len(self.proxies)
ThreadEvaluate(t) ==
    /\ UNCHANGED run
    /\ threads[t].pc = "line 66"
    /\ threads' = [threads EXCEPT ![t] =
          [@ EXCEPT !.pc = "store",
                    !.tmp = (current_proxy_index + 1) % Len(proxies)]]
    /\ UNCHANGED <<instance, op, pc, call, proxy, served, bulk, frame, query,
                   businesses>>

\* line 66, the store to self.current_proxy_index, and the return of
\* lines 68-71
ThreadStore(t) ==
    /\ UNCHANGED run
    /\ threads[t].pc = "store"
    /\ current_proxy_index' = threads[t].tmp
    /\ threads' = [threads EXCEPT ![t] =
          [@ EXCEPT !.pc = "done", !.value = ProxyDict(threads[t].local)]]
    /\ UNCHANGED <<proxies, rate_limit, max_retries, op, pc, call, proxy,
                   served, bulk, frame, query, businesses>>

\* both requests are over; the threads go back to the pool
ThreadsJoin ==
    /\ UNCHANGED run
    /\ ThreadsDone
    /\ threads' = [t \in Threads |-> IdleThread]
    /\ UNCHANGED <<instance, op, pc, call, proxy, served, bulk, frame, query,
                   businesses>>

\* the pool is configured while no request is being handled
Configure(proxy_list) ==
    /\ ThreadsIdle
    /\ add_proxies(proxy_list)

NextConcurrent ==
    \/ \E proxy_list \in ProxyLists : Configure(proxy_list)
    \/ \E t \in Threads : ThreadCall(t)
    \/ \E t \in Threads : ThreadRead(t)
    \/ \E t \in Threads : ThreadEvaluate(t)
    \/ \E t \in Threads : ThreadStore(t)
    \/ ThreadsJoin

SpecConcurrent == Init /\ [][NextConcurrent]_vars

(* ------------------------------ properties ----------------------------- *)
Count(seq, e) == Cardinality({k \in 1..Len(seq) : seq[k] = e})

\* transport attempts (session.get calls) of the running scrape_url call
Attempts == Count(log, "session.get")

ResultStatuses == {"success", "failed"}

\* C1: scrape_url never raises: whatever add_proxies calls were made between
\* fetches and whatever each attempt's transport outcome, every scrape_url
\* call ends by returning a result whose status is 'success' or 'failed'.
C1_ScrapeUrlNeverRaises ==
    /\ pc # "raised"
    /\ pc = "returned" => result.status \in ResultStatuses

\* C2: one scrape_url call makes at most max_retries transport attempts,
\* every loop iteration that continues increases the attempt counter, and a
\* call that has started eventually returns a result.
C2_BoundedAndReturns ==
    /\ [](Attempts <= max_retries)
    /\ [][(pc = "loop" /\ pc' = "loop" /\ log' # log) => attempt' > attempt]_vars
    /\ (pc = "loop") ~> (pc = "returned")

\* The parts of C2 that hold of every call, also of one that raises: the
\* attempts never exceed the budget, an iteration that continues adds one to
\* the loop variable, and a call that has started ends (returns or raises).
AttemptsBounded == Attempts <= max_retries

AttemptIncreases ==
    [][(pc = "loop" /\ pc' = "loop" /\ log' # log) => attempt' = attempt + 1]_vars

CallEnds == (pc = "loop") ~> (pc \in {"returned", "raised"})

\* C3: bulk_scrape returns one result per input url, the k-th result carries
\* the k-th url, and the call it is making is for the url after the results
\* it has, whether the earlier fetches succeeded or failed.
C3_OrderPreserved ==
    op = "bulk_scrape" =>
        /\ Len(results) <= Len(urls)
        /\ \A k \in 1..Len(results) :
              /\ results[k].url = urls[k]
              /\ results[k].status \in ResultStatuses
        /\ frame = "returned" => Len(results) = Len(urls)
        /\ (frame = "loop" /\ pc \in {"loop", "returned"}) =>
              /\ Len(results) < Len(urls)
              /\ url = urls[Len(results) + 1]

\* C3 witness: a batch of two different urls has returned, its first fetch
\* failed and its second succeeded.
C3_Witness ==
    /\ op = "bulk_scrape"
    /\ frame = "returned"
    /\ Len(urls) = 2
    /\ urls[1] # urls[2]
    /\ Len(results) = 2
    /\ results[1].status = "failed"
    /\ results[2].status = "success"

\* C4: after add_proxies configures K >= 1 endpoints, the k-th get_next_proxy
\* call since then returns endpoint ((k - 1) mod K) of the list: each endpoint
\* once in K calls, the first endpoint again at call K + 1.
C4_RoundRobin ==
    Len(proxies) >= 1 =>
        \A k \in 1..Len(served) :
            served[k] = ProxyDict(proxies[((k - 1) % Len(proxies)) + 1])

\* C5: whenever the proxy list is non-empty, 0 <= cursor < len(proxies).
C5_CursorInRange ==
    proxies # << >> =>
        /\ 0 <= current_proxy_index
        /\ current_proxy_index < Len(proxies)

\* C6: right after add_proxies with a non-empty list the cursor is 0, and the
\* first get_next_proxy call after it returns endpoints[0].
C6_ConfigureResetsCursor ==
    proxies # << >> =>
        /\ served = << >> => current_proxy_index = 0
        /\ served # << >> => served[1] = ProxyDict(proxies[1])

\* some caller runs self.get_next_proxy() in this step
NextProxyCalled ==
    \/ GetNextProxy
    \/ (InLoop /\ log' # log)

\* C7: with an empty proxy list every get_next_proxy call returns None,
\* raises nothing and leaves the cursor unchanged.
C7_EmptyPoolFallback ==
    [][(proxies = << >> /\ NextProxyCalled) =>
          /\ proxy' = NoProxy
          /\ pc' # "raised"
          /\ current_proxy_index' = current_proxy_index]_vars

\* C7 witness: a scrape_url call has made an attempt on a list emptied after
\* the cursor had advanced: it got None and the cursor is where it was.
C7_Witness ==
    /\ proxies = << >>
    /\ current_proxy_index > 0
    /\ pc = "loop"
    /\ Attempts >= 1
    /\ proxy = NoProxy

AllRequestExceptions ==
    \A k \in 1..Len(outcomes) : outcomes[k] = RequestException

\* C8: with a retry budget R >= 1, a scrape_url call all of whose transport
\* attempts raised makes no more than R attempts, and returns only after
\* exactly R attempts, with status 'failed' and content None.
C8_Exhaustion ==
    (pc \in {"loop", "returned"} /\ max_retries >= 1 /\ AllRequestExceptions) =>
        /\ Attempts = Len(outcomes)
        /\ Attempts <= max_retries
        /\ pc = "returned" =>
              /\ Attempts = max_retries
              /\ result.status = "failed"
              /\ result.content = None

\* C8 witness: a call with budget 3 has returned after three raised attempts.
C8_Witness ==
    /\ pc = "returned"
    /\ max_retries = 3
    /\ Len(outcomes) = 3
    /\ AllRequestExceptions
    /\ result.status = "failed"

\* outcomes is k responses 429 followed by one response 200
RateLimitedThenOk ==
    /\ Len(outcomes) >= 1
    /\ outcomes[Len(outcomes)] = Response(200)
    /\ \A k \in 1..(Len(outcomes) - 1) : outcomes[k] = Response(429)

\* C9: a call whose responses were k times 429 and then 200 has slept k
\* times in the 10-20 band and in no other, has made k + 1 attempts within
\* its budget, has returned 'success', and nothing follows the 200: a 200 is
\* always the last outcome of a call and ends it.
C9_RateLimitBackoff ==
    /\ RateLimitedThenOk =>
          /\ pc = "returned"
          /\ result.status = "success"
          /\ Attempts = Len(outcomes)
          /\ Attempts <= max_retries
          /\ Count(log, "sleep(10, 20)") = Len(outcomes) - 1
          /\ Count(log, "sleep(5, 10)") = 0
          /\ Count(log, "human_delay") = 0
          /\ log[Len(log)] = "session.get"
    /\ \A k \in 1..Len(outcomes) :
          outcomes[k] = Response(200) => (k = Len(outcomes) /\ pc = "returned")

\* C9 witness: the responses were 429, 429, 200 with budget 3.
C9_Witness ==
    /\ max_retries = 3
    /\ Len(outcomes) = 3
    /\ RateLimitedThenOk
    /\ pc = "returned"

(* ------------------------------- timing ------------------------------- *)
TransportTimeout == 30

RateLimitMax == 20

ErrorMax == 10

JitterMax == 3

\* the longest a logged call can take, in seconds: session.get up to its
\* timeout, a sleep up to the top of its band, human_delay up to
\* self.rate_limit + 3.0; the other calls do not wait
MaxSeconds(event) ==
    CASE event = "session.get" -> TransportTimeout
      [] event = "sleep(10, 20)" -> RateLimitMax
      [] event = "sleep(5, 10)" -> ErrorMax
      [] event = "human_delay" -> rate_limit + JitterMax
      [] OTHER -> 0

RECURSIVE TotalSeconds(_)
TotalSeconds(events) ==
    IF events = << >> THEN 0
    ELSE MaxSeconds(Head(events)) + TotalSeconds(Tail(events))

\* C11: the time one scrape_url call with budget R spends in transport
\* calls and sleeps, each taken at its maximum, never exceeds
\* R x (30 + 20 + 3) seconds.
C11_WallClockBound ==
    TotalSeconds(log) <= max_retries * (TransportTimeout + RateLimitMax + JitterMax)

\* C11 witness: a call with budget 3 has returned after three responses 429,
\* the slowest outcome: 3 x (30 + 20) seconds.
C11_Witness ==
    /\ pc = "returned"
    /\ max_retries = 3
    /\ \A k \in 1..Len(outcomes) : outcomes[k] = Response(429)
    /\ TotalSeconds(log) = 3 * (TransportTimeout + RateLimitMax)

Max(a, b) == IF a > b THEN a ELSE b

\* C12: bulk_scrape fetches one url at a time: the scrape_url call it is in
\* is for the url after the results recorded so far, one inter-item delay
\* has been taken after each recorded non-final item, and a returned batch
\* of N urls has taken exactly max(N - 1, 0) delays, none after the last.
C12_BulkPacing ==
    (op = "bulk_scrape" /\ frame \in {"loop", "returned"}) =>
        /\ i = Len(results)
        /\ bulk_delays = Min(Len(results), Max(Len(urls) - 1, 0))
        /\ frame = "loop" =>
              /\ i < Len(urls)
              /\ url = urls[i + 1]
        /\ frame = "returned" =>
              /\ Len(results) = Len(urls)
              /\ bulk_delays = Max(Len(urls) - 1, 0)

\* C12 witness: a batch of two urls has returned after one delay.
C12_Witness ==
    /\ op = "bulk_scrape"
    /\ frame = "returned"
    /\ Len(urls) = 2
    /\ Len(results) = 2
    /\ bulk_delays = 1

(* ------------------- what follows each transport attempt --------------- *)
Pauses == {"sleep(10, 20)", "sleep(5, 10)", "human_delay"}

IsPause(event) == event \in Pauses

\* the position in log of the k-th session.get of the running call
NthGet(k) ==
    CHOOSE j \in 1..Len(log) :
        /\ log[j] = "session.get"
        /\ Count(SubSeq(log, 1, j), "session.get") = k

\* the sleeps and pacing delays between the k-th session.get and the next
\* one (or the end of the call so far)
AfterAttempt(k) ==
    SelectSeq(SubSeq(log, NthGet(k) + 1,
                     IF k < Attempts THEN NthGet(k + 1) ELSE Len(log)),
              IsPause)

NonSuccess(k) == outcomes[k] # Response(200)

IsBadStatus(k) ==
    /\ ~outcomes[k].raised
    /\ outcomes[k].status_code \notin {200, 429}

\* C13 as stated: after any attempt classified as non-success (429, other
\* non-200 status or transport failure), if attempts remain, human_delay is
\* applied before the next attempt begins.
C13_PacingAfterAnyNonSuccess ==
    \A k \in 1..Len(outcomes) :
        (NonSuccess(k) /\ k < max_retries) =>
            Count(AfterAttempt(k), "human_delay") = 1

\* C13 amended: after a non-success attempt with attempts remaining exactly
\* one delay precedes the next attempt: human_delay after a status other
\* than 200 and 429, and the penalty sleep alone, without human_delay, after
\* a 429 or a transport failure.
C13_OneDelayBetweenAttempts ==
    \A k \in 1..Len(outcomes) :
        (NonSuccess(k) /\ k < max_retries) =>
            /\ Len(AfterAttempt(k)) = 1
            /\ AfterAttempt(k) = <<"human_delay">> <=> IsBadStatus(k)

\* C13 witness: a call of budget 3 that paced after a 503, took only the
\* penalty sleep after a 429, and went on to a third attempt.
C13_Witness ==
    /\ max_retries = 3
    /\ Len(outcomes) = 3
    /\ outcomes[1] = Response(503)
    /\ outcomes[2] = Response(429)
    /\ AfterAttempt(1) = <<"human_delay">>
    /\ AfterAttempt(2) = <<"sleep(10, 20)">>

\* C14: every attempt answered 429 is followed by exactly one sleep of the
\* 10-20 band and no other delay, the last attempt of the budget included;
\* a returned call made another attempt after each 429 that was not its
\* last, a 429 on the last attempt gives status 'failed', and R responses
\* 429 give R penalty sleeps.
C14_RateLimitedDecision ==
    /\ \A k \in 1..Len(outcomes) :
          outcomes[k] = Response(429) =>
              /\ AfterAttempt(k) = <<"sleep(10, 20)">>
              /\ pc = "returned" =>
                    /\ k < max_retries => k < Len(outcomes)
                    /\ k = max_retries => result.status = "failed"
    /\ ( /\ pc = "returned"
         /\ \A k \in 1..Len(outcomes) : outcomes[k] = Response(429) ) =>
            /\ Len(outcomes) = max_retries
            /\ Count(log, "sleep(10, 20)") = max_retries
            /\ result.status = "failed"

\* C14 witness: three 429 responses used up a budget of 3 and the sleep
\* after the third was taken before the failed result.
C14_Witness ==
    /\ pc = "returned"
    /\ max_retries = 3
    /\ outcomes = <<Response(429), Response(429), Response(429)>>
    /\ AfterAttempt(3) = <<"sleep(10, 20)">>
    /\ result.status = "failed"

\* C15: an attempt that raised RequestException is followed by one sleep
\* of the 5-10 band if attempts remain and by no sleep of any kind if it
\* was the last of the budget, after which the call returns 'failed'; R
\* transport failures give R - 1 such sleeps.
C15_TransportFailureDecision ==
    /\ \A k \in 1..Len(outcomes) :
          outcomes[k] = RequestException =>
              /\ AfterAttempt(k) =
                    IF k < max_retries THEN <<"sleep(5, 10)">> ELSE << >>
              /\ pc = "returned" =>
                    /\ k < max_retries => k < Len(outcomes)
                    /\ k = max_retries => result.status = "failed"
    /\ (pc = "returned" /\ AllRequestExceptions /\ max_retries >= 1) =>
            /\ Len(outcomes) = max_retries
            /\ Count(log, "sleep(5, 10)") = max_retries - 1
            /\ result.status = "failed"

\* C15 witness: three transport failures used up a budget of 3 with a
\* sleep after the first two and none after the third.
C15_Witness ==
    /\ pc = "returned"
    /\ max_retries = 3
    /\ outcomes = <<RequestException, RequestException, RequestException>>
    /\ AfterAttempt(2) = <<"sleep(5, 10)">>
    /\ AfterAttempt(3) = << >>

\* C16: an attempt answered with a status other than 200 and 429 is
\* followed by no sleep of either penalty band, by exactly one human_delay
\* if attempts remain and by nothing if not; a returned call made another
\* attempt after each such answer that was not its last.
C16_BadStatusDecision ==
    \A k \in 1..Len(outcomes) :
        IsBadStatus(k) =>
            /\ AfterAttempt(k) =
                  IF k < max_retries THEN <<"human_delay">> ELSE << >>
            /\ pc = "returned" =>
                  /\ k < max_retries => k < Len(outcomes)
                  /\ k = max_retries => result.status = "failed"

\* C16 witness: three 503 responses used up a budget of 3 with two pacing
\* delays and no penalty sleep.
C16_Witness ==
    /\ pc = "returned"
    /\ max_retries = 3
    /\ outcomes = <<Response(503), Response(503), Response(503)>>
    /\ log = Transmit \o <<"human_delay">> \o Transmit \o <<"human_delay">>
               \o Transmit

\* C17: a scrape_url call that returns has status 'success' exactly when
\* one of its at most R attempts was answered 200; that attempt is the last
\* one made and nothing follows it (no sleep, no delay); any other returned
\* call has status 'failed' with content None and method None; the returned
\* url is the requested url.
C17_ResultClassification ==
    /\ \A k \in 1..Len(outcomes) :
          outcomes[k] = Response(200) =>
              /\ k = Len(outcomes)
              /\ log[Len(log)] = "session.get"
              /\ pc = "returned"
    /\ pc = "returned" =>
          /\ Attempts <= max_retries
          /\ result.url = url
          /\ result.status = "success" <=>
                \E k \in 1..Len(outcomes) : outcomes[k] = Response(200)
          /\ result.status # "success" =>
                /\ result.status = "failed"
                /\ result.content = None
                /\ result.method = None

\* C17 witness: a transport failure and then a 200 on the second attempt.
C17_Witness ==
    /\ pc = "returned"
    /\ outcomes = <<RequestException, Response(200)>>
    /\ result.status = "success"
    /\ result.url = url
    /\ log[Len(log)] = "session.get"

\* C18: every transport attempt is preceded by exactly one new call of
\* get_random_headers, so the number of identities generated by a call
\* equals the number of its transport attempts.
C18_FreshIdentityPerAttempt ==
    Count(log, "get_random_headers") = Attempts

\* each session.get comes right after the get_random_headers and
\* get_next_proxy calls of its own iteration
IdentityBeforeEachAttempt ==
    \A j \in 1..Len(log) :
        log[j] = "session.get" =>
            /\ j >= 3
            /\ SubSeq(log, j - 2, j) = Transmit

\* two calls that began at the same cursor position of a pool of at least
\* two endpoints and both returned
ConcurrentPair ==
    /\ ThreadsDone
    /\ Len(proxies) >= 2
    /\ threads[1].start = threads[2].start
    /\ threads[1].pc = "done"
    /\ threads[2].pc = "done"

\* C19: the read of the cursor and its advance are one atomic step: two
\* concurrent get_next_proxy calls from the same cursor position of a pool
\* of K >= 2 endpoints return different endpoints and leave the cursor
\* advanced by exactly 2 modulo K.
C19_AtomicRotation ==
    ConcurrentPair =>
        /\ threads[1].value # threads[2].value
        /\ current_proxy_index = (threads[1].start + 2) % Len(proxies)

FetchOps == {"scrape_url", "bulk_scrape", "extract_business_info"}

\* C20: in every step the proxy list changes only by add_proxies and the
\* cursor only inside a get_next_proxy call; rate_limit and max_retries
\* never change; scrape_url, bulk_scrape, extract_business_info and
\* human_delay leave the proxy list alone, human_delay leaves the whole
\* instance alone, and the cursor a fetch call starts with is the one the
\* previous operation left.
C20_PersistentStateFrame ==
    [][ /\ proxies' # proxies =>
              \E proxy_list \in ProxyLists : add_proxies(proxy_list)
        /\ current_proxy_index' # current_proxy_index => NextProxyCalled
        /\ rate_limit' = rate_limit
        /\ max_retries' = max_retries
        /\ (op \in FetchOps \/ op' \in FetchOps) => proxies' = proxies
        /\ (op = "human_delay" \/ op' = "human_delay") => instance' = instance
        /\ op' # op => current_proxy_index' = current_proxy_index
      ]_vars

\* C20 witness: a fetch starts with the cursor that earlier rotations left,
\* on the pool that add_proxies set.
C20_Witness ==
    /\ op = "scrape_url"
    /\ pc = "loop"
    /\ log = << >>
    /\ Len(proxies) = 3
    /\ current_proxy_index = 2

\* the endpoint at cursor position c of the pool, as get_next_proxy gives it
EndpointAt(c) == ProxyDict(proxies[(c % Len(proxies)) + 1])

\* the attempts s .. s + K - 1 of the running client call
Window(s) == s..(s + Len(proxies) - 1)

\* C21: in a scrape_url, bulk_scrape or extract_business_info run on a
\* non-empty pool of K endpoints every session.get comes right after the one
\* get_next_proxy call of its iteration; after n transport attempts the
\* cursor has advanced by n modulo K from where the run began; attempt j of
\* the run (retries and later urls alike) used the endpoint j - 1 places
\* after the starting cursor; any K consecutive attempts used each endpoint
\* exactly once.
C21_OneRotationPerAttempt ==
    (op \in FetchOps /\ proxies # << >>) =>
        /\ Count(log, "get_next_proxy")
              = Attempts + (IF pc = "raised" THEN 1 ELSE 0)
        /\ \A j \in 1..Len(log) :
              log[j] = "session.get" => log[j - 1] = "get_next_proxy"
        /\ Len(used) >= Len(outcomes)
        /\ op = "scrape_url" => Len(used) = Attempts
        /\ (run_cursor + Len(used)) % Len(proxies)
              = current_proxy_index % Len(proxies)
        /\ Len(used) >= 1 => current_proxy_index < Len(proxies)
        /\ \A j \in 1..Len(used) : used[j] = EndpointAt(run_cursor + j - 1)
        /\ \A s \in 1..(Len(used) - Len(proxies) + 1) :
              \A e \in 1..Len(proxies) :
                 Cardinality({j \in Window(s) :
                                used[j] = ProxyDict(proxies[e])}) = 1

\* C21 witness: a batch on a pool of three that began at cursor 1 made
\* three attempts for its first url and is past the first attempt for its
\* second, which used the endpoint after the one of the last retry.
C21_Witness ==
    /\ op = "bulk_scrape"
    /\ Len(proxies) = 3
    /\ run_cursor = 1
    /\ Len(results) = 1
    /\ Len(used) = 4
    /\ used[3] = ProxyDict(proxies[1])
    /\ used[4] = ProxyDict(proxies[2])
    /\ current_proxy_index = 2

\* the record the claim expects for block b of a page
ExpectedName(soup, b) ==
    IF BlockKind(soup, b) = "ok" THEN "Business " \o ToString(b) ELSE "Unknown"

\* C10: when the search-page fetch succeeded and the page holds M blocks,
\* extract_business_info returns min(M, 10) records, one per block in order,
\* a block with a missing or broken sub-element giving a placeholder record.
C10_ListingExtraction ==
    (op = "extract_business_info" /\ frame = "returned"
        /\ result.status = "success") =>
        LET soup == BeautifulSoup(result.content)
            n == Min(soup.blocks, ResultCap)
        IN  /\ Len(businesses) = n
            /\ \A b \in 1..n : businesses[b].name = ExpectedName(soup, b)

====
